---- MODULE Spec2Model ----
(***************************************************************************)
(* Pipeline Orchestrator of agentic-marketer-desktop.                     *)
(*                                                                         *)
(* The orchestrator is a single-threaded, promise-based program: a call   *)
(* runs synchronously up to its next await, and every await is a point     *)
(* where another call or another continuation may run.  One action of     *)
(* this module is one such synchronous stretch.  The promises that are    *)
(* outstanding (a phase handler's agent session, the client's start) are   *)
(* the elements of the bag "tasks".                                        *)
(***************************************************************************)
EXTENDS Naturals, Sequences, FiniteSets, Bags, TLC

(***************************************************************************)
(* Bounds of the model.                                                    *)
(***************************************************************************)
\* number of calls the orchestrator accepts (does not ignore) in one behaviour
MaxCalls == 2

Runs == {"r1"}
\* the user request text of the n-th call: every request is a new text
RequestTexts == <<"request-1", "request-2", "request-3", "request-4", "request-5">>
Request(n) == RequestTexts[n]

\* an optional field that is undefined (or an empty string)
Unset == "unset"
\* pendingInput: null
NoInput == [type |-> "none", questions |-> 0]
\* plan: undefined
NoPlan == [set |-> FALSE, keyPoints |-> 0]

HandlerPhases == {"planner", "research", "positioning", "draft", "critic", "image"}
WaitingPhases == {"planner_waiting", "research_waiting", "critic_waiting"}
WorkflowPhase == {"idle", "complete", "error"} \cup HandlerPhases \cup WaitingPhases
ResponseTypes == {"questions", "findings", "improvements"}

(***************************************************************************)
(* WorkflowState and the helpers of shared/workflow-types.ts               *)
(***************************************************************************)
Message(role, content, agentId) ==
  [role |-> role, content |-> content, agentId |-> agentId]

createInitialState(runId, userRequest) ==
  [runId |-> runId,
   phase |-> "planner",
   userRequest |-> userRequest,
   pendingInput |-> NoInput,
   plannerAnswers |-> "unset",
   plan |-> NoPlan,
   visualDirection |-> Unset,
   skipResearch |-> FALSE,
   skipPositioning |-> FALSE,
   skipCritic |-> FALSE,
   skipImage |-> FALSE,
   draftInstructions |-> Unset,
   selectedFindingIds |-> "unset",
   research |-> Unset,
   positioning |-> Unset,
   draft |-> Unset,
   approvedImprovementIds |-> "unset",
   finalDraft |-> Unset,
   imageUrl |-> Unset,
   imagePrompt |-> Unset,
   error |-> "unset",
   messages |-> <<>>]

addMessage(state, role, content, agentId) ==
  [state EXCEPT !.messages = Append(state.messages, Message(role, content, agentId))]

(***************************************************************************)
(* The six phase handlers.  A handler is a function of the state snapshot  *)
(* it was called with and of what its agent session (or the image API)   *)
(* did, "out"; it returns a new state or throws.                           *)
(***************************************************************************)
Return(state) == [kind |-> "return", state |-> state, error |-> "unset"]
Throw(error) == [kind |-> "throw", state |-> createInitialState("none", Unset), error |-> error]

\* what the planner's session did: whether it threw, the number of questions
\* submit_questions left, and the plan submit_plan left (if any)
NoAgenticPlan ==
  [submitted |-> FALSE, researchTasks |-> 0, skipResearch |-> FALSE,
   skipPositioning |-> FALSE, skipCritic |-> FALSE, skipImage |-> FALSE,
   draftInstructions |-> Unset]
\* a plan for a new post, and a plan for an edit of the existing draft
FullPlan ==
  [submitted |-> TRUE, researchTasks |-> 1, skipResearch |-> FALSE,
   skipPositioning |-> FALSE, skipCritic |-> FALSE, skipImage |-> FALSE,
   draftInstructions |-> Unset]
EditPlan ==
  [submitted |-> TRUE, researchTasks |-> 0, skipResearch |-> TRUE,
   skipPositioning |-> TRUE, skipCritic |-> TRUE, skipImage |-> TRUE,
   draftInstructions |-> "instructions"]
\* the session throws, asks questions (with or without a plan), submits a
\* plan, or ends with neither
PlannerOut ==
  {[throws |-> TRUE, questions |-> 0, plan |-> NoAgenticPlan],
   [throws |-> FALSE, questions |-> 2, plan |-> NoAgenticPlan],
   [throws |-> FALSE, questions |-> 2, plan |-> FullPlan],
   [throws |-> FALSE, questions |-> 0, plan |-> FullPlan],
   [throws |-> FALSE, questions |-> 0, plan |-> EditPlan],
   [throws |-> FALSE, questions |-> 0, plan |-> NoAgenticPlan]}

hasAnswers(state) == state.plannerAnswers = "some"

\* a planner that goes on to research or positioning whatever the plan skips
PlannerNextPhase_NoSkip(p) ==
  IF p.researchTasks = 0 THEN "positioning" ELSE "research"

PlannerNextPhase(p) ==
  IF p.skipResearch \/ p.researchTasks = 0
  THEN (IF p.skipPositioning THEN "draft" ELSE "positioning")
  ELSE "research"

\* a planner that leaves a skip flag set once an earlier plan has set it
runPlannerPhase_KeepsFlags(state, out) ==
  IF out.throws THEN Throw("session")
  ELSE IF out.questions > 0 /\ ~hasAnswers(state)
  THEN Return([addMessage(state, "agent", "status", "planner") EXCEPT
                 !.phase = "planner_waiting",
                 !.pendingInput = [type |-> "questions", questions |-> out.questions]])
  ELSE IF out.plan.submitted
  THEN LET p == out.plan IN
       Return([addMessage(state, "agent", "status", "planner") EXCEPT
                 !.phase = PlannerNextPhase(p),
                 !.plan = [set |-> TRUE, keyPoints |-> p.researchTasks],
                 !.visualDirection = "visual-direction",
                 !.skipResearch = state.skipResearch \/ p.skipResearch,
                 !.skipPositioning = state.skipPositioning \/ p.skipPositioning,
                 !.skipCritic = state.skipCritic \/ p.skipCritic,
                 !.skipImage = state.skipImage \/ p.skipImage,
                 !.draftInstructions = p.draftInstructions,
                 !.pendingInput = NoInput])
  ELSE Return([state EXCEPT !.phase = "error", !.error = "planner-failed"])

runPlannerPhase(state, out) ==
  IF out.throws THEN Throw("session")
  ELSE IF out.questions > 0 /\ ~hasAnswers(state)
  THEN Return([addMessage(state, "agent", "status", "planner") EXCEPT
                 !.phase = "planner_waiting",
                 !.pendingInput = [type |-> "questions", questions |-> out.questions]])
  ELSE IF out.plan.submitted
  THEN LET p == out.plan IN
       Return([addMessage(state, "agent", "status", "planner") EXCEPT
                 !.phase = PlannerNextPhase(p),
                 !.plan = [set |-> TRUE, keyPoints |-> p.researchTasks],
                 !.visualDirection = "visual-direction",
                 !.skipResearch = p.skipResearch,
                 !.skipPositioning = p.skipPositioning,
                 !.skipCritic = p.skipCritic,
                 !.skipImage = p.skipImage,
                 !.draftInstructions = p.draftInstructions,
                 !.pendingInput = NoInput])
  ELSE Return([state EXCEPT !.phase = "error", !.error = "planner-failed"])

\* the research session throws, or ends with the data save_research collected
ResearchOut ==
  {[throws |-> TRUE, research |-> Unset], [throws |-> FALSE, research |-> "facts"]}

\* a research phase that stops at a checkpoint for the user to select findings
runResearchPhase_Checkpoint(state, out) ==
  IF out.throws THEN Throw("session")
  ELSE Return([addMessage(state, "agent", "status", "research") EXCEPT
                 !.phase = "research_waiting",
                 !.research = out.research,
                 !.pendingInput = [type |-> "findings", questions |-> 0]])

runResearchPhase(state, out) ==
  IF out.throws THEN Throw("session")
  ELSE Return([addMessage(state, "agent", "status", "research") EXCEPT
                 !.phase = "positioning",
                 !.research = out.research,
                 !.pendingInput = NoInput])

\* the positioning session throws, or ends with or without submit_positioning
PositioningOut ==
  {[throws |-> TRUE, positioning |-> Unset],
   [throws |-> FALSE, positioning |-> "agent-positioning"]}
\* the positioning derived from the plan when the agent submitted none
DefaultPositioning == "plan-positioning"

\* a positioning phase that asks the agent whatever skipPositioning says
runPositioningPhase_AlwaysRuns(state, out) ==
  IF out.throws THEN Throw("session")
  ELSE IF out.positioning # Unset
  THEN Return([addMessage(state, "agent", "status", "positioning") EXCEPT
                 !.phase = "draft",
                 !.positioning = out.positioning])
  ELSE Return([addMessage(state, "agent", "status", "positioning") EXCEPT
                 !.phase = "draft",
                 !.positioning = DefaultPositioning])

runPositioningPhase(state, out) ==
  IF state.skipPositioning /\ state.positioning # Unset
  THEN Return([addMessage(state, "agent", "status", "positioning") EXCEPT
                 !.phase = "draft",
                 !.pendingInput = NoInput])
  ELSE IF out.throws THEN Throw("session")
  ELSE IF out.positioning # Unset
  THEN Return([addMessage(state, "agent", "status", "positioning") EXCEPT
                 !.phase = "draft",
                 !.positioning = out.positioning])
  ELSE Return([addMessage(state, "agent", "status", "positioning") EXCEPT
                 !.phase = "draft",
                 !.positioning = DefaultPositioning])

\* the draft session throws, or ends with the text of submit_draft ('' if none)
DraftOut ==
  {[throws |-> TRUE, draft |-> Unset], [throws |-> FALSE, draft |-> Unset],
   [throws |-> FALSE, draft |-> "draft-text"]}

runDraftPhase(state, out) ==
  IF out.throws THEN Throw("session")
  ELSE IF out.draft # Unset
  THEN Return([addMessage(state, "agent", "status", "draft") EXCEPT
                 !.phase = "critic",
                 !.draft = out.draft])
  ELSE Return([state EXCEPT !.phase = "error", !.error = "draft-failed"])

\* the critic: createSession throws, or sendAndWait throws, or the session ends
\* with the text of submit_improved_draft ('' if none)
CriticOut ==
  {[createThrows |-> TRUE, throws |-> FALSE, improved |-> Unset],
   [createThrows |-> FALSE, throws |-> TRUE, improved |-> Unset],
   [createThrows |-> FALSE, throws |-> FALSE, improved |-> "improved-text"]}

CriticNextPhase(state) == IF state.skipImage THEN "complete" ELSE "image"

\* a critic phase that lets the throw of sendAndWait through
runCriticPhase_NoFallback(state, out) ==
  IF state.skipCritic
  THEN Return([addMessage(state, "agent", "status", "critic") EXCEPT
                 !.phase = CriticNextPhase(state),
                 !.finalDraft = state.draft,
                 !.pendingInput = NoInput])
  ELSE IF state.draft = Unset
  THEN Return([state EXCEPT !.phase = "error", !.error = "no-draft"])
  ELSE IF out.createThrows \/ out.throws THEN Throw("session")
  ELSE Return([addMessage(state, "agent", "status", "critic") EXCEPT
                 !.phase = CriticNextPhase(state),
                 !.finalDraft = out.improved,
                 !.pendingInput = NoInput])

\* a critic phase that reviews the draft whatever skipCritic says
runCriticPhase_NoSkip(state, out) ==
  IF state.draft = Unset
  THEN Return([state EXCEPT !.phase = "error", !.error = "no-draft"])
  ELSE IF out.createThrows THEN Throw("session")
  ELSE LET improvedDraft == IF out.throws THEN state.draft ELSE out.improved
           finalDraft == IF improvedDraft # Unset THEN improvedDraft ELSE state.draft
       IN Return([addMessage(state, "agent", "status", "critic") EXCEPT
                    !.phase = CriticNextPhase(state),
                    !.finalDraft = finalDraft,
                    !.pendingInput = NoInput])

runCriticPhase(state, out) ==
  IF state.skipCritic
  THEN Return([addMessage(state, "agent", "status", "critic") EXCEPT
                 !.phase = CriticNextPhase(state),
                 !.finalDraft = state.draft,
                 !.pendingInput = NoInput])
  ELSE IF state.draft = Unset
  THEN Return([state EXCEPT !.phase = "error", !.error = "no-draft"])
  ELSE IF out.createThrows THEN Throw("session")
  ELSE LET improvedDraft == IF out.throws THEN state.draft ELSE out.improved
           finalDraft == IF improvedDraft # Unset THEN improvedDraft ELSE state.draft
       IN Return([addMessage(state, "agent", "status", "critic") EXCEPT
                    !.phase = CriticNextPhase(state),
                    !.finalDraft = finalDraft,
                    !.pendingInput = NoInput])

\* the image phase: the API key is configured or not, and the image API
\* fails (HTTP error, no data, exception) or returns an image
ImageOut ==
  {[apiKey |-> TRUE, image |-> Unset], [apiKey |-> TRUE, image |-> "image-url"]}

runImagePhase(state, out) ==
  IF state.finalDraft = Unset /\ state.draft = Unset
  THEN Return([addMessage(state, "agent", "status", "image") EXCEPT !.phase = "complete"])
  ELSE IF ~out.apiKey
  THEN Return([addMessage(state, "agent", "status", "image") EXCEPT !.phase = "complete"])
  ELSE Return([addMessage(state, "agent", "status", "image") EXCEPT
                 !.phase = "complete",
                 !.imageUrl = out.image,
                 !.imagePrompt = IF out.image # Unset THEN "image-prompt" ELSE Unset])

(***************************************************************************)
(* pipeline/orchestrator.ts                                                *)
(***************************************************************************)
VARIABLES
  workflows,  \* this.workflows: the Map from runId to WorkflowState
  client,     \* this.client: "null" or "client"
  tasks,      \* the bag of outstanding promises the orchestrator awaits
  sent,       \* what the last step sent to the window, in order
  op,         \* the call or continuation that made the last step
  calls,      \* number of calls made on the orchestrator so far
  ran,        \* history: per run, the phases whose handler was called since
              \* the last user input the orchestrator took for the run
  runStore,   \* the Run Store: per run, the display projection on disk
  single,     \* the Single-Agent Orchestrator: its sessions and runStates maps
  host        \* the main process: the mode, and the orchestrators it created

vars == <<workflows, client, tasks, sent, op, calls, ran, runStore, single, host>>

\* storage/runs.ts createRun: the projection of a new run
NoImage == [url |-> Unset, status |-> "none"]
NewRun == [research |-> Unset, positioning |-> Unset, draft |-> Unset, image |-> NoImage]

NoState == createInitialState("none", Unset)

\* single-agent/orchestrator.ts: sessions and runStates are empty Maps; no
\* createSession was called for any run (created) and no message was sent to
\* a session (forwarded)
NoSingle ==
  [sessions |-> [r \in {} |-> 0],
   runStates |-> [r \in {} |-> Unset],
   created |-> [r \in Runs |-> 0],
   forwarded |-> {}]

\* ipc/handlers.ts and orchestration/index.ts at module load: the mode is
\* pipeline, "orchestrator" is null and no orchestrator was created
\* setOrchestrationMode was not called (modeSet), the settings file holds no
\* mode (saved), and no promise is awaited (pending)
NoHost ==
  [mode |-> "pipeline", modeSet |-> FALSE, saved |-> "none", current |-> 0,
   orchs |-> <<>>, pending |-> {}]

\* an outstanding promise: a phase handler's call (on the snapshot "state"),
\* or the client.start() that initialize() awaits
HandlerTask(state) ==
  [kind |-> "handler", cont |-> "none", runId |-> state.runId, userRequest |-> Unset,
   state |-> state]
StartTask(cont, runId, userRequest) ==
  [kind |-> "start", cont |-> cont, runId |-> runId, userRequest |-> userRequest,
   state |-> NoState]

Pending(kind) == {t \in BagToSet(tasks) : t.kind = kind}
\* the phase handler calls in flight for a run, counted with multiplicity
InFlight(bag, runId) ==
  LET hs == {t \in BagToSet(bag) : t.kind = "handler" /\ t.runId = runId}
      RECURSIVE Sum(_)
      Sum(S) == IF S = {} THEN 0
                ELSE LET t == CHOOSE x \in S : TRUE
                     IN CopiesIn(t, bag) + Sum(S \ {t})
  IN Sum(hs)

\* Map.get / Map.set
Has(wfs, runId) == runId \in DOMAIN wfs
\* a map that keeps one state for all runs
MapSet_OneForAll(wfs, runId, state) ==
  [r \in DOMAIN wfs \cup {runId} |-> state]

MapSet(wfs, runId, state) ==
  [r \in DOMAIN wfs \cup {runId} |-> IF r = runId THEN state ELSE wfs[r]]
EmptyMap == [r \in {} |-> NoState]

\* what one synchronous stretch of the orchestrator does: the map it leaves,
\* the promises it starts to await, and what it sends, in order
Effect(wfs, started, out) == [workflows |-> wfs, started |-> started, sent |-> out]

WorkflowEvent(type, state) ==
  [chan |-> "workflow:event", type |-> type, runId |-> state.runId,
   phase |-> state.phase, pendingInput |-> state.pendingInput]

emitEvent(type, state) == <<WorkflowEvent(type, state)>>

emitPendingInput(state) ==
  IF state.pendingInput = NoInput THEN <<>>
  ELSE <<[chan |-> "workflow:pending-input", type |-> "pending_input",
          runId |-> state.runId, phase |-> state.phase,
          pendingInput |-> state.pendingInput]>>

\* runNextPhase up to its first await (the phase handler's call) or its return
runNextPhase(wfs, runId) ==
  IF ~Has(wfs, runId) THEN Effect(wfs, EmptyBag, <<>>)
  ELSE LET state == wfs[runId] IN
    IF state.pendingInput # NoInput
    THEN Effect(wfs, EmptyBag, emitPendingInput(state))
    ELSE IF state.phase \in WaitingPhases
    THEN Effect(wfs, EmptyBag, emitPendingInput(state))
    ELSE IF state.phase \in HandlerPhases
    THEN Effect(wfs, SetToBag({HandlerTask(state)}), emitEvent("phase_start", state))
    ELSE IF state.phase = "complete"
    THEN Effect(wfs, EmptyBag,
                emitEvent("phase_start", state) \o emitEvent("workflow_complete", state))
    ELSE IF state.phase = "error"
    THEN Effect(wfs, EmptyBag,
                emitEvent("phase_start", state) \o emitEvent("workflow_error", state))
    ELSE Effect(wfs, EmptyBag, emitEvent("phase_start", state))

\* e, followed by runNextPhase(runId) in the same synchronous stretch
ThenRunNextPhase(e, runId) ==
  LET n == runNextPhase(e.workflows, runId)
  IN Effect(n.workflows, e.started (+) n.started, e.sent \o n.sent)

\* a follow-up that leaves the old request text in userRequest
FollowUpState_KeepsRequest(existingState, userRequest) ==
  [existingState EXCEPT
     !.phase = "planner",
     !.pendingInput = NoInput,
     !.messages = Append(existingState.messages, Message("user", userRequest, "none"))]

FollowUpState(existingState, userRequest) ==
  [existingState EXCEPT
     !.phase = "planner",
     !.userRequest = userRequest,
     !.pendingInput = NoInput,
     !.messages = Append(existingState.messages, Message("user", userRequest, "none"))]

handleFollowUp(wfs, runId, userRequest) ==
  IF ~Has(wfs, runId) THEN Effect(wfs, EmptyBag, <<>>)
  ELSE LET newState == FollowUpState(wfs[runId], userRequest)
       IN ThenRunNextPhase(
            Effect(MapSet(wfs, runId, newState), EmptyBag, emitEvent("phase_start", newState)),
            runId)

\* a fresh state without the seed user message
FreshState_NoSeed(runId, userRequest) == createInitialState(runId, userRequest)

FreshState(runId, userRequest) ==
  LET state == createInitialState(runId, userRequest)
  IN [state EXCEPT !.messages = Append(state.messages, Message("user", userRequest, "none"))]

\* startWorkflow that starts afresh on a complete workflow too
startWorkflow_FreshOnComplete(wfs, runId, userRequest) ==
  IF Has(wfs, runId) /\ wfs[runId].phase # "complete" /\ wfs[runId].phase # "error"
  THEN Effect(wfs, EmptyBag, <<>>)
  ELSE LET state == FreshState(runId, userRequest)
       IN ThenRunNextPhase(
            Effect(MapSet(wfs, runId, state), EmptyBag, emitEvent("phase_start", state)),
            runId)

\* startWorkflow without the test for a workflow in progress
startWorkflow_NoProgressTest(wfs, runId, userRequest) ==
  IF Has(wfs, runId) /\ wfs[runId].phase = "complete"
  THEN handleFollowUp(wfs, runId, userRequest)
  ELSE LET state == FreshState(runId, userRequest)
       IN ThenRunNextPhase(
            Effect(MapSet(wfs, runId, state), EmptyBag, emitEvent("phase_start", state)),
            runId)

\* startWorkflow after its "if (!this.client) await this.initialize()"
startWorkflow(wfs, runId, userRequest) ==
  IF Has(wfs, runId) /\ wfs[runId].phase = "complete"
  THEN handleFollowUp(wfs, runId, userRequest)
  ELSE IF Has(wfs, runId) /\ wfs[runId].phase # "complete" /\ wfs[runId].phase # "error"
  THEN Effect(wfs, EmptyBag, <<>>)
  ELSE LET state == FreshState(runId, userRequest)
       IN ThenRunNextPhase(
            Effect(MapSet(wfs, runId, state), EmptyBag, emitEvent("phase_start", state)),
            runId)

\* a UserInputResponse; "answers || {}" and "selectedIds || []" make an
\* absent field an empty one
Responses ==
  [type : {"questions"}, answers : {"unset", "some"}, selectedIds : {"unset"}]
  \cup [type : {"findings", "improvements"}, answers : {"unset"}, selectedIds : {"some"}]

OrEmpty(v) == IF v = "unset" THEN "empty" ELSE v

\* a response that leaves the checkpoint's pendingInput in place
UserResponseState_KeepsInput(state, response) ==
  IF response.type = "questions"
  THEN [state EXCEPT !.plannerAnswers = OrEmpty(response.answers), !.phase = "planner"]
  ELSE IF response.type = "findings"
  THEN [state EXCEPT !.selectedFindingIds = OrEmpty(response.selectedIds),
                     !.phase = "research"]
  ELSE IF response.type = "improvements"
  THEN [state EXCEPT !.approvedImprovementIds = OrEmpty(response.selectedIds),
                     !.phase = "critic"]
  ELSE state

UserResponseState(state, response) ==
  IF response.type = "questions"
  THEN [state EXCEPT !.plannerAnswers = OrEmpty(response.answers),
                     !.pendingInput = NoInput,
                     !.phase = "planner"]
  ELSE IF response.type = "findings"
  THEN [state EXCEPT !.selectedFindingIds = OrEmpty(response.selectedIds),
                     !.pendingInput = NoInput,
                     !.phase = "research"]
  ELSE IF response.type = "improvements"
  THEN [state EXCEPT !.approvedImprovementIds = OrEmpty(response.selectedIds),
                     !.pendingInput = NoInput,
                     !.phase = "critic"]
  ELSE state

\* handleUserResponse that stores the response and does not go on
handleUserResponse_NoResume(wfs, runId, response) ==
  IF ~Has(wfs, runId) \/ wfs[runId].pendingInput = NoInput
  THEN Effect(wfs, EmptyBag, <<>>)
  ELSE LET newState == UserResponseState(wfs[runId], response)
       IN Effect(MapSet(wfs, runId, newState), EmptyBag, emitEvent("state_update", newState))

\* handleUserResponse without the test for a pendingInput
handleUserResponse_NoPendingTest(wfs, runId, response) ==
  IF ~Has(wfs, runId)
  THEN Effect(wfs, EmptyBag, <<>>)
  ELSE LET newState == UserResponseState(wfs[runId], response)
       IN ThenRunNextPhase(
            Effect(MapSet(wfs, runId, newState), EmptyBag, emitEvent("state_update", newState)),
            runId)

handleUserResponse(wfs, runId, response) ==
  IF ~Has(wfs, runId) \/ wfs[runId].pendingInput = NoInput
  THEN Effect(wfs, EmptyBag, <<>>)
  ELSE LET newState == UserResponseState(wfs[runId], response)
       IN ThenRunNextPhase(
            Effect(MapSet(wfs, runId, newState), EmptyBag, emitEvent("state_update", newState)),
            runId)

\* the handler runNextPhase dispatches to for the snapshot's phase
HandlerOut(phase) ==
  CASE phase = "planner" -> PlannerOut
    [] phase = "research" -> ResearchOut
    [] phase = "positioning" -> PositioningOut
    [] phase = "draft" -> DraftOut
    [] phase = "critic" -> CriticOut
    [] phase = "image" -> ImageOut

runPhase(state, out) ==
  CASE state.phase = "planner" -> runPlannerPhase(state, out)
    [] state.phase = "research" -> runResearchPhase(state, out)
    [] state.phase = "positioning" -> runPositioningPhase(state, out)
    [] state.phase = "draft" -> runDraftPhase(state, out)
    [] state.phase = "critic" -> runCriticPhase(state, out)
    [] state.phase = "image" -> runImagePhase(state, out)

\* a return that emits phase_complete only after it has gone on to the next phase
phaseReturned_CompleteLast(wfs, runId, newState) ==
  LET n == runNextPhase(MapSet(wfs, runId, newState), runId)
  IN Effect(n.workflows, n.started, n.sent \o emitEvent("phase_complete", newState))

\* runNextPhase from the handler's return on.  syncToRunStorage awaits only
\* promises that are already resolved (storage/runs.ts reads and writes the
\* file with synchronous calls), so the recursion into runNextPhase runs
\* before any other call or any other handler's completion is taken from the
\* event loop.
phaseReturned(wfs, runId, newState) ==
  ThenRunNextPhase(
    Effect(MapSet(wfs, runId, newState), EmptyBag, emitEvent("phase_complete", newState)),
    runId)

\* the catch block of runNextPhase; state is the snapshot the handler ran on
ErrorState(state, error) == [state EXCEPT !.phase = "error", !.error = error]

phaseThrew(wfs, runId, state, error) ==
  LET errorState == ErrorState(state, error)
  IN Effect(MapSet(wfs, runId, errorState), EmptyBag, emitEvent("workflow_error", errorState))

(***************************************************************************)
(* The steps: calls made on the orchestrator, and continuations of the    *)
(* promises it awaits.                                                     *)
(***************************************************************************)
Apply(e, settled) ==
  /\ workflows' = e.workflows
  /\ tasks' = (tasks (-) settled) (+) e.started
  /\ sent' = e.sent

\* a call made on the orchestrator; a call that is ignored (it changes nothing
\* and starts nothing) is not counted
Call(name, runId, e) ==
  /\ op' = [name |-> name, runId |-> runId]
  /\ Apply(e, EmptyBag)
  /\ IF e.workflows = workflows /\ e.started = EmptyBag
     THEN calls' = calls
     ELSE /\ calls < MaxCalls
          /\ calls' = calls + 1

Continue(name, runId, e, settled) ==
  /\ op' = [name |-> name, runId |-> runId]
  /\ Apply(e, SetToBag({settled}))
  /\ UNCHANGED <<client, calls>>

Init ==
  /\ workflows = EmptyMap
  /\ client = "null"
  /\ tasks = EmptyBag
  /\ sent = <<>>
  /\ op = [name |-> "constructor", runId |-> "none"]
  /\ calls = 0
  /\ ran = [r \in Runs |-> <<>>]
  /\ runStore = [r \in Runs |-> NewRun]
  /\ single = NoSingle
  /\ host = NoHost

\* startWorkflow: "if (!this.client) await this.initialize()" creates the
\* client and awaits its start; with a client the rest runs at once
StartWorkflow(runId, userRequest) ==
  /\ Call("startWorkflow", runId,
          IF client = "null"
          THEN Effect(workflows, SetToBag({StartTask("startWorkflow", runId, userRequest)}),
                      <<>>)
          ELSE startWorkflow(workflows, runId, userRequest))
  /\ client' = "client"

\* client.start() resolved: initialize() returns, and startWorkflow goes on
ClientStarted(t) ==
  /\ t.kind = "start"
  /\ Continue("clientStarted", t.runId,
              IF t.cont = "startWorkflow"
              THEN startWorkflow(workflows, t.runId, t.userRequest)
              ELSE Effect(workflows, EmptyBag, <<>>),
              t)

HandleFollowUp(runId, userRequest) ==
  /\ Call("handleFollowUp", runId, handleFollowUp(workflows, runId, userRequest))
  /\ client' = client

HandleUserResponse(runId, response) ==
  /\ Call("handleUserResponse", runId, handleUserResponse(workflows, runId, response))
  /\ client' = client

PhaseReturned(t, out) ==
  /\ t.kind = "handler"
  /\ runPhase(t.state, out).kind = "return"
  /\ Continue("phaseReturned", t.runId,
              phaseReturned(workflows, t.runId, runPhase(t.state, out).state), t)

PhaseThrew(t, out) ==
  /\ t.kind = "handler"
  /\ runPhase(t.state, out).kind = "throw"
  /\ Continue("phaseThrew", t.runId,
              phaseThrew(workflows, t.runId, t.state, runPhase(t.state, out).error), t)

\* the history "ran" and the Run Store are kept only by the specifications
\* that read them; the Pipeline Orchestrator's steps touch neither the
\* Single-Agent Orchestrator nor the main process
OtherObjects == single' = single /\ host' = host
NoHistory == ran' = ran /\ runStore' = runStore /\ OtherObjects

Next ==
  \/ (\E r \in Runs : StartWorkflow(r, Request(calls + 1))) /\ NoHistory
  \/ (\E r \in Runs : HandleFollowUp(r, Request(calls + 1))) /\ NoHistory
  \/ (\E r \in Runs, resp \in Responses : HandleUserResponse(r, resp)) /\ NoHistory
  \/ (\E t \in Pending("start") : ClientStarted(t)) /\ NoHistory
  \/ (\E t \in Pending("handler") :
        \E out \in HandlerOut(t.state.phase) : PhaseReturned(t, out)) /\ NoHistory
  \/ (\E t \in Pending("handler") :
        \E out \in HandlerOut(t.state.phase) : PhaseThrew(t, out)) /\ NoHistory

Spec == Init /\ [][Next]_vars

(***************************************************************************)
(* Properties.                                                             *)
(***************************************************************************)
\* the state the orchestrator holds for a run, and the steps of a call
Held(runId) == Has(workflows, runId)
InProgress(runId) ==
  Held(runId) /\ workflows[runId].phase \notin {"complete", "error"}
Transcript(wfs, runId) == IF Has(wfs, runId) THEN wfs[runId].messages ELSE <<>>
IsPrefix(s, t) == Len(s) <= Len(t) /\ \A i \in 1..Len(s) : s[i] = t[i]
\* the step runs the body of startWorkflow (the part after the client exists)
StartWorkflowRuns(runId) ==
  /\ op'.runId = runId
  /\ \/ op'.name = "startWorkflow" /\ client # "null"
     \/ op'.name = "clientStarted"
\* the step starts a phase handler for the run
StartsHandler(runId) ==
  \E t \in BagToSet(tasks') :
    t.kind = "handler" /\ t.runId = runId /\ CopiesIn(t, tasks') > CopiesIn(t, tasks)
StartsNoHandler == \A r \in Runs : ~StartsHandler(r)

\* C1: for each run at most one phase handler is in flight at any time,
\* whatever startWorkflow, handleUserResponse and handleFollowUp calls arrive.
C1_AtMostOneHandlerInFlight == \A r \in Runs : InFlight(tasks, r) <= 1

\* C2: in every WorkflowState the orchestrator holds, pendingInput is set
\* exactly when the phase is one of the three waiting phases.
C2_PendingInputIffWaiting ==
  \A r \in DOMAIN workflows :
    (workflows[r].pendingInput # NoInput) <=> (workflows[r].phase \in WaitingPhases)

C2_Witness ==
  \E r \in DOMAIN workflows :
    /\ workflows[r].phase = "planner_waiting"
    /\ workflows[r].pendingInput.type = "questions"
    /\ op.name = "phaseReturned"

\* C3: startWorkflow for a run whose workflow is in progress (held, and neither
\* complete nor error) changes no workflow state, starts no handler and sends
\* nothing.
C3_StartInProgressIgnored ==
  [][\A r \in Runs :
       (StartWorkflowRuns(r) /\ InProgress(r))
         => (workflows' = workflows /\ StartsNoHandler /\ sent' = <<>>)]_vars

C3_Witness ==
  \E r \in DOMAIN workflows :
    /\ op = [name |-> "startWorkflow", runId |-> r]
    /\ workflows[r].phase \in WaitingPhases
    /\ sent = <<>>

\* C4: the transcript of a run only grows: after every step the transcript the
\* orchestrator held before the step is a prefix of the one it holds after.
C4_TranscriptAppendOnly ==
  [][\A r \in Runs : IsPrefix(Transcript(workflows, r), Transcript(workflows', r))]_vars

\* the outputs of a workflow
Outputs(state) ==
  <<state.plan, state.research, state.positioning, state.draft, state.finalDraft,
    state.imageUrl>>
NoOutputs == <<NoPlan, Unset, Unset, Unset, Unset, Unset>>
Last(s) == s[Len(s)]
\* post is pre with its outputs and transcript kept, one user message appended
\* and the phase back at planner
KeptAndAppended(pre, post) ==
  /\ Outputs(post) = Outputs(pre)
  /\ Len(post.messages) = Len(pre.messages) + 1
  /\ IsPrefix(pre.messages, post.messages)
  /\ Last(post.messages).role = "user"
  /\ post.phase = "planner"
\* post is a fresh workflow: no outputs, and the new request alone as transcript
StartedAfresh(post) ==
  /\ Outputs(post) = NoOutputs
  /\ Len(post.messages) = 1
  /\ post.messages[1].role = "user"
  /\ post.phase = "planner"

FollowUpRuns(runId) ==
  \/ StartWorkflowRuns(runId)
  \/ op' = [name |-> "handleFollowUp", runId |-> runId]

\* C6: on a follow-up request for a complete run, the state the planner is
\* called with has phase planner, no pendingInput, the new request text as
\* userRequest, the transcript extended by one user message carrying that
\* text, and plan, research, positioning, draft, finalDraft and imageUrl as
\* they were.
C6_FollowUpPlannerState ==
  [][\A r \in Runs :
       (FollowUpRuns(r) /\ Held(r) /\ workflows[r].phase = "complete")
         => \E t \in BagToSet(tasks') :
              /\ t.kind = "handler" /\ t.runId = r
              /\ CopiesIn(t, tasks') = CopiesIn(t, tasks) + 1
              /\ InFlight(tasks', r) = InFlight(tasks, r) + 1
              /\ t.state.phase = "planner"
              /\ t.state.pendingInput = NoInput
              /\ \A i \in 1..Len(workflows[r].messages) :
                   workflows[r].messages[i].content # t.state.userRequest
              /\ t.state.messages =
                   Append(workflows[r].messages,
                          [role |-> "user", content |-> t.state.userRequest,
                           agentId |-> "none"])
              /\ Outputs(t.state) = Outputs(workflows[r])]_vars

C6_Witness ==
  \E r \in DOMAIN workflows :
    /\ op.name \in {"startWorkflow", "handleFollowUp"} /\ op.runId = r
    /\ sent # <<>>
    /\ \E t \in Pending("handler") :
         /\ t.state = workflows[r]
         /\ t.state.phase = "planner"
         /\ t.state.draft # Unset
         /\ t.state.userRequest # t.state.messages[1].content

\* C7: a checkpoint consumes exactly one response.  A handleUserResponse call
\* made while pendingInput is set clears it and resumes the workflow with one
\* handler; a call made while it is not set changes nothing, starts nothing
\* and sends nothing.
C7_OneResponsePerCheckpoint ==
  [][\A r \in Runs :
       op' = [name |-> "handleUserResponse", runId |-> r]
         => IF Held(r) /\ workflows[r].pendingInput # NoInput
            THEN /\ workflows'[r].pendingInput = NoInput
                 /\ InFlight(tasks', r) = InFlight(tasks, r) + 1
                 /\ sent' # <<>>
            ELSE workflows' = workflows /\ tasks' = tasks /\ sent' = <<>>]_vars

\* a second response, after the first was taken and before any new checkpoint
C7_Witness ==
  \E r \in DOMAIN workflows :
    /\ op = [name |-> "handleUserResponse", runId |-> r]
    /\ sent = <<>>
    /\ workflows[r].plannerAnswers # "unset"
    /\ workflows[r].phase = "planner"
    /\ workflows[r].pendingInput = NoInput

\* C8: handleUserResponse for a run the orchestrator holds no workflow for, or
\* whose workflow has no pendingInput (a handler is running, or the workflow
\* is complete or error), changes no state, starts no handler and sends nothing.
C8_ResponseWithoutCheckpointIgnored ==
  [][\A r \in Runs :
       (/\ op' = [name |-> "handleUserResponse", runId |-> r]
        /\ (~Held(r) \/ workflows[r].pendingInput = NoInput))
         => UNCHANGED <<workflows, tasks>> /\ sent' = <<>>]_vars

C8_Witness ==
  \E r \in DOMAIN workflows :
    /\ op = [name |-> "handleUserResponse", runId |-> r]
    /\ sent = <<>>
    /\ workflows[r].phase \in {"complete", "error"}

\* no handler is running on a state whose pendingInput is set
NoHandlerOnPendingInput ==
  \A t \in Pending("handler") : t.state.pendingInput = NoInput
\* a handler's return that leaves a pendingInput sends the pending-input
\* message of that checkpoint
PendingInputSent ==
  \A r \in Runs :
    (/\ op' = [name |-> "phaseReturned", runId |-> r]
     /\ Has(workflows', r) /\ workflows'[r].pendingInput # NoInput)
      => \E i \in 1..Len(sent') :
           /\ sent'[i].chan = "workflow:pending-input"
           /\ sent'[i].runId = r
           /\ sent'[i].phase = workflows'[r].phase
           /\ sent'[i].pendingInput = workflows'[r].pendingInput
\* while a run's pendingInput is set, only handleUserResponse starts a handler
\* for the run
WaitsForResponse ==
  \A r \in Runs :
    (Held(r) /\ workflows[r].pendingInput # NoInput /\ StartsHandler(r))
      => op' = [name |-> "handleUserResponse", runId |-> r]

\* C9: when a handler returns a state carrying pendingInput, no further handler
\* is started for the run until handleUserResponse is called for it, and the
\* pending-input message of the checkpoint is sent; no handler is ever called
\* on a state whose pendingInput is set.
C9_SuspendsUntilResponse ==
  []NoHandlerOnPendingInput /\ [][PendingInputSent /\ WaitsForResponse]_vars

\* the phase machine: the order of the phases, and the waiting phase of a phase
Rank(phase) ==
  CASE phase = "planner" -> 1
    [] phase = "research" -> 2
    [] phase = "positioning" -> 3
    [] phase = "draft" -> 4
    [] phase = "critic" -> 5
    [] phase = "image" -> 6
    [] phase = "complete" -> 7
Ordered == {"planner", "research", "positioning", "draft", "critic", "image", "complete"}
WaitingOf(phase) ==
  CASE phase = "planner" -> "planner_waiting"
    [] phase = "research" -> "research_waiting"
    [] phase = "critic" -> "critic_waiting"
    [] OTHER -> "none"
\* a change of phase the machine allows, made by the step named opName
AllowedMove(from, to, opName) ==
  \/ from = to
  \/ to = "error"
  \/ from \in Ordered /\ to \in Ordered /\ Rank(from) < Rank(to)
  \/ from \in HandlerPhases /\ to = WaitingOf(from)
  \/ to \in HandlerPhases /\ from = WaitingOf(to) /\ opName = "handleUserResponse"
  \/ to = "planner" /\ opName \in {"startWorkflow", "clientStarted", "handleFollowUp"}

\* C10: every change of a run's phase is a move to a later phase of the order
\* planner, research, positioning, draft, critic, image, complete, a move to
\* the phase's own waiting phase or back from it on a response, a move to
\* error, or a move back to planner made by a follow-up request.
C10_PhaseMachine ==
  [][\A r \in Runs :
       (Has(workflows, r) /\ Has(workflows', r))
         => AllowedMove(workflows[r].phase, workflows'[r].phase, op'.name)]_vars

(***************************************************************************)
(* destroy(): the orchestrator with its whole lifecycle.                   *)
(***************************************************************************)
\* the client.stop() that destroy() awaits
StopTask ==
  [kind |-> "stop", cont |-> "none", runId |-> "none", userRequest |-> Unset,
   state |-> NoState]

\* destroy() to its await: the map is cleared and, with a client, its stop awaited
Destroy ==
  /\ calls < MaxCalls
  /\ calls' = calls + 1
  /\ op' = [name |-> "destroy", runId |-> "none"]
  /\ workflows' = EmptyMap
  /\ tasks' = IF client # "null" THEN tasks (+) SetToBag({StopTask}) ELSE tasks
  /\ sent' = <<>>
  /\ client' = client
  /\ UNCHANGED <<ran, runStore, single, host>>

\* client.stop() resolved: destroy() sets the client to null and returns
ClientStopped(t) ==
  /\ t.kind = "stop"
  /\ op' = [name |-> "clientStopped", runId |-> "none"]
  /\ client' = "null"
  /\ tasks' = tasks (-) SetToBag({t})
  /\ sent' = <<>>
  /\ UNCHANGED <<workflows, calls, ran, runStore, single, host>>

NextLifecycle ==
  \/ Next
  \/ Destroy
  \/ \E t \in Pending("stop") : ClientStopped(t)

SpecLifecycle == Init /\ [][NextLifecycle]_vars

\* a destroy() has returned and no startWorkflow was called since: the client
\* is null again although calls were made
DestroyReturned == client = "null" /\ calls > 0

\* C11: once destroy() has returned and the calls that were in flight have
\* settled, the map of workflows is empty and no client is left.
C11_DestroyedStaysEmpty ==
  (DestroyReturned /\ tasks = EmptyBag) => (workflows = EmptyMap /\ client = "null")

(***************************************************************************)
(* The orchestrator with the history of the handlers it called.            *)
(***************************************************************************)
\* the step runs the body of a call on the run, and the orchestrator takes it
TakesInput(runId) ==
  /\ op'.runId = runId
  /\ op'.name \in {"startWorkflow", "clientStarted", "handleFollowUp", "handleUserResponse"}
  /\ workflows' # workflows
\* the phase of the handler the step calls for the run (a step calls at most one)
PhasesCalled(runId) ==
  LET hs == {t \in BagToSet(tasks') :
               /\ t.kind = "handler" /\ t.runId = runId
               /\ CopiesIn(t, tasks') > CopiesIn(t, tasks)}
  IN IF hs = {} THEN <<>> ELSE <<(CHOOSE t \in hs : TRUE).state.phase>>
History ==
  /\ ran' = [r \in Runs |->
               (IF TakesInput(r) THEN <<>> ELSE ran[r]) \o PhasesCalled(r)]
  /\ runStore' = runStore
  /\ OtherObjects

NextHistory ==
  \/ (\E r \in Runs : StartWorkflow(r, Request(calls + 1))) /\ History
  \/ (\E r \in Runs : HandleFollowUp(r, Request(calls + 1))) /\ History
  \/ (\E r \in Runs, resp \in Responses : HandleUserResponse(r, resp)) /\ History
  \/ (\E t \in Pending("start") : ClientStarted(t)) /\ History
  \/ (\E t \in Pending("handler") :
        \E out \in HandlerOut(t.state.phase) : PhaseReturned(t, out)) /\ History
  \/ (\E t \in Pending("handler") :
        \E out \in HandlerOut(t.state.phase) : PhaseThrew(t, out)) /\ History

\* every handler call eventually returns or throws, and the client starts
Settles ==
  /\ WF_vars((\E t \in Pending("start") : ClientStarted(t)) /\ History)
  /\ WF_vars((\E t \in Pending("handler") :
                \E out \in HandlerOut(t.state.phase) :
                  PhaseReturned(t, out) \/ PhaseThrew(t, out)) /\ History)

SpecHistory == Init /\ [][NextHistory]_vars /\ Settles

\* the run rests: at a checkpoint, complete or error
Rests(runId) ==
  Held(runId) /\ workflows[runId].phase \in WaitingPhases \cup {"complete", "error"}
\* every input the orchestrator took brings the run to rest
EveryInputComesToRest ==
  \A r \in Runs : (Held(r) /\ ~Rests(r)) ~> Rests(r)
\* the handlers called since the last input are in the order of the phases,
\* none twice
CalledOnceInOrder ==
  \A r \in Runs :
    \A i, j \in 1..Len(ran[r]) : i < j => Rank(ran[r][i]) < Rank(ran[r][j])

\* C12: if every handler call returns or throws, every input the orchestrator
\* takes brings the run to planner_waiting, complete or error, and between two
\* user inputs each handler is called at most once, in the order of the phases.
C12_ComesToRestEachHandlerOnce ==
  EveryInputComesToRest /\ []CalledOnceInOrder

\* the step is the catch of a handler's throw for the run: the phase becomes
\* error, the thrown message is recorded and workflow_error is emitted
ThrowRecorded(runId) ==
  op' = [name |-> "phaseThrew", runId |-> runId]
    => /\ Has(workflows', runId)
       /\ workflows'[runId].phase = "error"
       /\ workflows'[runId].error = "session"
       /\ \E i \in 1..Len(sent') :
            /\ sent'[i].type = "workflow_error" /\ sent'[i].runId = runId
            /\ sent'[i].phase = "error"
\* a run in error after a throw gets a handler only from a startWorkflow or
\* handleFollowUp
NoRetry(runId) ==
  (/\ Held(runId) /\ workflows[runId].phase = "error"
   /\ workflows[runId].error = "session" /\ StartsHandler(runId))
    => op'.name \in {"startWorkflow", "clientStarted", "handleFollowUp"}

\* C13: when a handler throws, the run's phase becomes error with the thrown
\* message as error, workflow_error is emitted, and no handler is called for
\* the run until a new startWorkflow or handleFollowUp.
C13_ThrowEndsInErrorNoRetry ==
  [][\A r \in Runs : ThrowRecorded(r) /\ NoRetry(r)]_vars

(***************************************************************************)
(* The phase handlers on their own: the orchestrator holds one run, in any *)
(* state a handler can be called on, and drives it on from there.          *)
(***************************************************************************)
\* the draft, final draft and image a workflow has got so far
OutputStages ==
  {[draft |-> Unset, finalDraft |-> Unset, imageUrl |-> Unset],
   [draft |-> "draft-text", finalDraft |-> Unset, imageUrl |-> Unset],
   [draft |-> "draft-text", finalDraft |-> "draft-text", imageUrl |-> Unset],
   [draft |-> "draft-text", finalDraft |-> "improved-text", imageUrl |-> Unset],
   [draft |-> "draft-text", finalDraft |-> "improved-text", imageUrl |-> "image-url"]}

\* the states a handler is called on: any handler phase, any skip flags a plan
\* has left, with or without answers, positioning and earlier outputs
PhaseInputs ==
  {[FreshState(r, Request(1)) EXCEPT
      !.phase = ph,
      !.plannerAnswers = a,
      !.plan = IF ph = "planner" THEN NoPlan ELSE [set |-> TRUE, keyPoints |-> 1],
      !.skipResearch = f[1],
      !.skipPositioning = f[2],
      !.skipCritic = f[3],
      !.skipImage = f[4],
      !.positioning = pos,
      !.draft = o.draft,
      !.finalDraft = o.finalDraft,
      !.imageUrl = o.imageUrl] :
     r \in Runs, ph \in HandlerPhases, a \in {"unset", "empty", "some"},
     f \in [1..4 -> BOOLEAN], pos \in {Unset, DefaultPositioning}, o \in OutputStages}

InitPhases ==
  \E s \in PhaseInputs :
    /\ workflows = MapSet(EmptyMap, s.runId, s)
    /\ client = "client"
    /\ tasks = SetToBag({HandlerTask(s)})
    /\ sent = emitEvent("phase_start", s)
    /\ op = [name |-> "runNextPhase", runId |-> s.runId]
    /\ calls = 0
    /\ ran = [r \in Runs |-> <<>>]
    /\ runStore = [r \in Runs |-> NewRun]
    /\ single = NoSingle
    /\ host = NoHost

\* what a handler's session can do, a positioning session that ends without
\* submit_positioning included
PhaseOut(phase) ==
  IF phase = "positioning"
  THEN PositioningOut \cup {[throws |-> FALSE, positioning |-> Unset]}
  ELSE HandlerOut(phase)

NextPhases ==
  \/ (\E t \in Pending("handler") :
        \E out \in PhaseOut(t.state.phase) : PhaseReturned(t, out)) /\ NoHistory
  \/ (\E t \in Pending("handler") :
        \E out \in PhaseOut(t.state.phase) : PhaseThrew(t, out)) /\ NoHistory

SpecPhases == InitPhases /\ [][NextPhases]_vars

\* the critic's session is sent the draft: the phase is not skipped and there
\* is a draft
CriticSessionCalled(state) == ~state.skipCritic /\ state.draft # Unset

syncToRunStorage(run, state) ==
  [research |-> IF state.research # Unset THEN state.research ELSE run.research,
   positioning |-> IF state.positioning # Unset THEN state.positioning
                   ELSE run.positioning,
   draft |-> IF state.finalDraft # Unset THEN state.finalDraft
             ELSE IF state.draft # Unset THEN state.draft
             ELSE run.draft,
   image |-> IF state.imageUrl # Unset
             THEN [url |-> state.imageUrl, status |-> "ready"]
             ELSE run.image]

\* runNextPhase syncs the state a handler returned before it goes on
StoreSync ==
  /\ runStore' =
       IF op'.name = "phaseReturned"
       THEN [runStore EXCEPT
               ![op'.runId] = syncToRunStorage(@, workflows'[op'.runId])]
       ELSE runStore
  /\ ran' = ran
  /\ OtherObjects

NextStore ==
  \/ (\E r \in Runs : StartWorkflow(r, Request(calls + 1))) /\ StoreSync
  \/ (\E r \in Runs : HandleFollowUp(r, Request(calls + 1))) /\ StoreSync
  \/ (\E r \in Runs, resp \in Responses : HandleUserResponse(r, resp)) /\ StoreSync
  \/ (\E t \in Pending("start") : ClientStarted(t)) /\ StoreSync
  \/ (\E t \in Pending("handler") :
        \E out \in HandlerOut(t.state.phase) : PhaseReturned(t, out)) /\ StoreSync
  \/ (\E t \in Pending("handler") :
        \E out \in HandlerOut(t.state.phase) : PhaseThrew(t, out)) /\ StoreSync

SpecStore == Init /\ [][NextStore]_vars

\* the status of the last image panel update the image phase sends to the
\* window: none when it returns before it calls the image API
ImagePanelStatus(state, out) ==
  IF state.finalDraft = Unset /\ state.draft = Unset THEN "none"
  ELSE IF ~out.apiKey THEN "none"
  ELSE IF out.image # Unset THEN "ready"
  ELSE "error"

\* the image phase has a draft and an API key, and the image API fails
ImageFails(state, out) ==
  /\ state.finalDraft # Unset \/ state.draft # Unset
  /\ out.apiKey /\ out.image = Unset
\* the run has just completed through an image phase that failed
ImageJustFailed(runId) ==
  /\ op = [name |-> "phaseReturned", runId |-> runId]
  /\ Held(runId)
  /\ workflows[runId].phase = "complete"
  /\ Last(workflows[runId].messages).agentId = "image"
  /\ workflows[runId].imageUrl = Unset

\* C15: if image generation fails, the image phase returns phase complete
\* (it neither throws nor returns error), the image panel update it sends to
\* the window has status error, and so has the image projection mirrored in
\* the Run Store.
C15_ImageFallback ==
  /\ \A t \in Pending("handler") :
       t.state.phase = "image"
         => \A out \in ImageOut :
              ImageFails(t.state, out)
                => /\ runImagePhase(t.state, out).kind = "return"
                   /\ runImagePhase(t.state, out).state.phase = "complete"
                   /\ ImagePanelStatus(t.state, out) = "error"
  /\ \A r \in Runs : ImageJustFailed(r) => runStore[r].image.status = "error"

\* the step appends an agent message to the transcript of the run
AppendsAgentMessage(runId) ==
  /\ Len(Transcript(workflows', runId)) > Len(Transcript(workflows, runId))
  /\ Last(Transcript(workflows', runId)).role = "agent"
\* the step brings the run into complete or error
BecomesTerminal(runId) ==
  /\ Has(workflows', runId)
  /\ workflows'[runId].phase \in {"complete", "error"}
  /\ ~Held(runId) \/ workflows[runId].phase # workflows'[runId].phase

\* C16: every step that brings a run into complete or error (by a handler's
\* throw or by a returned error state), and every handler return with a
\* degraded outcome (critic fallback, image failure), appends an agent message
\* to the run's transcript.
C16_TerminalStepAppendsMessage ==
  [][\A r \in Runs :
       (\/ BecomesTerminal(r)
        \/ op' = [name |-> "phaseReturned", runId |-> r])
         => AppendsAgentMessage(r)]_vars

\* C17: in every state of every run the orchestrator holds, error is set only
\* if the phase is error; a run restarted or followed up after a failure does
\* not carry the old error in planner or a later phase.
C17_ErrorOnlyInErrorPhase ==
  \A r \in DOMAIN workflows :
    workflows[r].error # "unset" => workflows[r].phase = "error"

\* a handler the step calls for the run is preceded, as the last event before
\* the call, by the phase_start of the phase it runs
StartPrecedesHandler(runId) ==
  \A t \in BagToSet(tasks') :
    (/\ t.kind = "handler" /\ t.runId = runId
     /\ CopiesIn(t, tasks') > CopiesIn(t, tasks))
      => /\ sent' # <<>>
         /\ Last(sent').type = "phase_start"
         /\ Last(sent').runId = runId
         /\ Last(sent').phase = t.state.phase
\* a handler's return is followed by one phase_complete, before anything the
\* next phase emits
CompleteFollowsReturn(runId) ==
  op' = [name |-> "phaseReturned", runId |-> runId]
    => /\ sent' # <<>>
       /\ sent'[1].type = "phase_complete"
       /\ sent'[1].runId = runId
       /\ \A i \in 2..Len(sent') : sent'[i].type # "phase_complete"
\* reaching complete or error emits workflow_complete or workflow_error, after
\* every other event of the step
TerminalEventLast(runId) ==
  BecomesTerminal(runId)
    => /\ sent' # <<>>
       /\ Last(sent').runId = runId
       /\ Last(sent').phase = workflows'[runId].phase
       /\ Last(sent').type = IF workflows'[runId].phase = "complete"
                             THEN "workflow_complete" ELSE "workflow_error"

\* C18: the events of a run are emitted in the order the phases are executed:
\* a handler's call is preceded by the phase_start of its phase, its return is
\* followed by phase_complete before the next phase's phase_start, and
\* reaching complete or error emits workflow_complete or workflow_error after
\* the events of the earlier phases.
C18_EventsInExecutionOrder ==
  [][\A r \in Runs :
       StartPrecedesHandler(r) /\ CompleteFollowsReturn(r) /\ TerminalEventLast(r)]_vars

\* a handler's return has brought the run to complete
C18_Witness ==
  \E r \in DOMAIN workflows :
    /\ op = [name |-> "phaseReturned", runId |-> r]
    /\ workflows[r].phase = "complete"
    /\ Len(sent) = 3
    /\ sent[1].type = "phase_complete"
    /\ sent[3].type = "workflow_complete"

\* C19: a run started fresh (startWorkflow with no workflow held for the run)
\* begins in phase planner with no pendingInput, no outputs and a transcript
\* of exactly the seed user message, and the planner is called on that state.
C19_FreshStart ==
  [][\A r \in Runs :
       (StartWorkflowRuns(r) /\ ~Held(r))
         => /\ Has(workflows', r)
            /\ workflows'[r].runId = r
            /\ workflows'[r].phase = "planner"
            /\ workflows'[r].pendingInput = NoInput
            /\ Outputs(workflows'[r]) = NoOutputs
            /\ workflows'[r].messages =
                 <<[role |-> "user", content |-> workflows'[r].userRequest,
                    agentId |-> "none"]>>
            /\ \E t \in BagToSet(tasks') :
                 t.kind = "handler" /\ t.state = workflows'[r]]_vars

C19_Witness ==
  \E r \in DOMAIN workflows :
    /\ op = [name |-> "clientStarted", runId |-> r]
    /\ sent # <<>>
    /\ workflows[r].phase = "planner"
    /\ Len(workflows[r].messages) = 1
    /\ workflows[r].userRequest = Request(1)

\* a questions response has just been taken for the run: the planner is
\* called again
QuestionsAnswered(runId) ==
  /\ op = [name |-> "handleUserResponse", runId |-> runId]
  /\ sent # <<>>
  /\ Held(runId)
  /\ workflows[runId].phase = "planner"

\* C20: the planner run that follows a questions response does not raise
\* pendingInput again, whatever the response's answers are and whatever the
\* planner's session does.
C20_NoSecondRoundOfQuestions ==
  \A r \in Runs :
    QuestionsAnswered(r)
      => \A out \in PlannerOut :
           LET res == runPlannerPhase(workflows[r], out) IN
           res.kind = "return" => res.state.pendingInput = NoInput

(***************************************************************************)
(* Follow-ups: the orchestrator holds one run that a first request has     *)
(* brought to complete, and takes further requests for it.                 *)
(***************************************************************************)
\* the first request was the one call made so far
OriginalRequest == Request(1)

\* the states a first request leaves at complete: every handler ran, the
\* critic improved the draft or fell back, the image was generated or not
CompletedRuns ==
  {LET s0 == FreshState(r, OriginalRequest)
       s1 == runPlannerPhase(s0, [throws |-> FALSE, questions |-> 0, plan |-> FullPlan]).state
       s2 == runResearchPhase(s1, [throws |-> FALSE, research |-> "facts"]).state
       s3 == runPositioningPhase(s2, po).state
       s4 == runDraftPhase(s3, [throws |-> FALSE, draft |-> "draft-text"]).state
       s5 == runCriticPhase(s4, co).state
   IN runImagePhase(s5, io).state :
   r \in Runs,
   po \in {o \in PositioningOut : ~o.throws},
   co \in {o \in CriticOut : ~o.createThrows},
   io \in ImageOut}

\* the plans submit_plan can leave for an edit of the existing post: research
\* and positioning are skipped, the critic and the image are skipped or not,
\* and research tasks are listed or not
FollowUpPlans ==
  {[submitted |-> TRUE, researchTasks |-> n, skipResearch |-> TRUE,
    skipPositioning |-> TRUE, skipCritic |-> c, skipImage |-> i,
    draftInstructions |-> "instructions"] :
   n \in {0, 1}, c \in BOOLEAN, i \in BOOLEAN}

FollowUpOut(phase) ==
  IF phase = "planner"
  THEN PlannerOut \cup {[throws |-> FALSE, questions |-> 0, plan |-> p] : p \in FollowUpPlans}
  ELSE HandlerOut(phase)

InitFollowUp ==
  \E s \in CompletedRuns :
    /\ workflows = MapSet(EmptyMap, s.runId, s)
    /\ client = "client"
    /\ tasks = EmptyBag
    /\ sent = emitEvent("phase_start", s) \o emitEvent("workflow_complete", s)
    /\ op = [name |-> "runNextPhase", runId |-> s.runId]
    /\ calls = 1
    /\ ran = [r \in Runs |-> <<>>]
    /\ runStore = [r \in Runs |-> NewRun]
    /\ single = NoSingle
    /\ host = NoHost

NextFollowUp ==
  \/ (\E r \in Runs : StartWorkflow(r, Request(calls + 1))) /\ NoHistory
  \/ (\E r \in Runs : HandleFollowUp(r, Request(calls + 1))) /\ NoHistory
  \/ (\E r \in Runs, resp \in Responses : HandleUserResponse(r, resp)) /\ NoHistory
  \/ (\E t \in Pending("handler") :
        \E out \in FollowUpOut(t.state.phase) : PhaseReturned(t, out)) /\ NoHistory
  \/ (\E t \in Pending("handler") :
        \E out \in FollowUpOut(t.state.phase) : PhaseThrew(t, out)) /\ NoHistory

SpecFollowUp == InitFollowUp /\ [][NextFollowUp]_vars

\* the state belongs to a follow-up: the request it works on is not the one
\* the transcript began with
IsFollowUp(state) ==
  state.messages # <<>> /\ state.userRequest # state.messages[1].content
\* the handler call the step takes the return of
Settled(t) == CopiesIn(t, tasks') < CopiesIn(t, tasks)
\* the phase after "phase" when research and positioning are skipped
EditNext(phase, skipImage) ==
  CASE phase = "planner" -> "draft"
    [] phase = "draft" -> "critic"
    [] phase = "critic" -> (IF skipImage THEN "complete" ELSE "image")
    [] phase = "image" -> "complete"
    [] OTHER -> "none"
\* the handler succeeded: it returned neither an error nor a checkpoint
Succeeded(state) == state.phase \notin WaitingPhases \cup {"error"}

\* C21: on a follow-up for which the planner returns skipResearch and
\* skipPositioning, every handler that succeeds hands over to the next of
\* planner, draft, critic, image (only if skipImage is not set), complete: the
\* handler called next is never research or positioning, and research and
\* positioning are left as the handler was given them.
C21_EditSkipsResearchAndPositioning ==
  [][\A r \in Runs : \A t \in Pending("handler") :
       (/\ op' = [name |-> "phaseReturned", runId |-> r]
        /\ t.runId = r /\ Settled(t) /\ IsFollowUp(t.state)
        /\ Has(workflows', r) /\ Succeeded(workflows'[r])
        /\ workflows'[r].skipResearch /\ workflows'[r].skipPositioning)
         => /\ workflows'[r].phase = EditNext(t.state.phase, workflows'[r].skipImage)
            /\ workflows'[r].research = t.state.research
            /\ workflows'[r].positioning = t.state.positioning
            /\ \A n \in BagToSet(tasks') :
                 (n.kind = "handler" /\ CopiesIn(n, tasks') > CopiesIn(n, tasks))
                   => /\ n.state.phase = workflows'[r].phase
                      /\ n.state.phase \in {"draft", "critic", "image"}]_vars

\* an edit has gone through the image phase to complete
C21_Witness ==
  \E r \in DOMAIN workflows :
    /\ op = [name |-> "phaseReturned", runId |-> r]
    /\ IsFollowUp(workflows[r])
    /\ workflows[r].phase = "complete"
    /\ workflows[r].skipResearch /\ workflows[r].skipPositioning
    /\ ~workflows[r].skipImage
    /\ Last(workflows[r].messages).agentId = "image"
    /\ workflows[r].research = "facts"

\* C22: whenever a run's phase is complete, its finalDraft is a non-empty
\* text.
C22_CompleteHasFinalDraft ==
  \A r \in DOMAIN workflows :
    workflows[r].phase = "complete" => workflows[r].finalDraft # Unset

(***************************************************************************)
(* single-agent/orchestrator.ts: the Single-Agent Orchestrator.  The       *)
(* variables client, tasks, sent, op and calls are those of this           *)
(* orchestrator here; it holds no workflows.                               *)
(***************************************************************************)
\* an outstanding promise: client.start(), client.createSession() for a run,
\* or session.sendAndWait() of a message
SingleTask(kind, runId, userRequest, session) ==
  [kind |-> kind, cont |-> "single", runId |-> runId, userRequest |-> userRequest,
   state |-> NoState, session |-> session]

\* startWorkflow from "let session = this.sessions.get(runId)" to its next
\* await: the message goes to the run's session, or a session is created
singleGetOrCreateSession(runId, userRequest, settled) ==
  IF Has(single.sessions, runId)
  THEN /\ single' = [single EXCEPT
                       !.forwarded = @ \cup {[runId |-> runId, text |-> userRequest,
                                              session |-> single.sessions[runId]]}]
       /\ tasks' = (tasks (-) settled)
                     (+) SetToBag({SingleTask("send", runId, userRequest,
                                              single.sessions[runId])})
  ELSE /\ single' = [single EXCEPT !.created[runId] = @ + 1]
       /\ tasks' = (tasks (-) settled)
                     (+) SetToBag({SingleTask("createSession", runId, userRequest,
                                              single.created[runId] + 1)})

\* startWorkflow, and handleFollowUp which calls it
singleStartWorkflow(name, runId, userRequest) ==
  /\ calls < MaxCalls
  /\ calls' = calls + 1
  /\ op' = [name |-> name, runId |-> runId]
  /\ sent' = <<>>
  /\ IF client = "null"
     THEN /\ client' = "client"
          /\ tasks' = tasks (+) SetToBag({SingleTask("start", runId, userRequest, 0)})
          /\ single' = single
     ELSE /\ client' = client
          /\ singleGetOrCreateSession(runId, userRequest, EmptyBag)
  /\ UNCHANGED <<workflows, ran, runStore, host>>

\* client.start() resolved: initialize() returns and startWorkflow goes on
singleClientStarted(t) ==
  /\ t.kind = "start"
  /\ op' = [name |-> "clientStarted", runId |-> t.runId]
  /\ sent' = <<>>
  /\ singleGetOrCreateSession(t.runId, t.userRequest, SetToBag({t}))
  /\ UNCHANGED <<workflows, client, calls, ran, runStore, host>>

\* createSession resolved: the session is put in the map and sent the message
singleSessionCreated(t) ==
  /\ t.kind = "createSession"
  /\ op' = [name |-> "sessionCreated", runId |-> t.runId]
  /\ sent' = <<>>
  /\ single' = [single EXCEPT
                  !.sessions = MapSet(@, t.runId, t.session),
                  !.forwarded = @ \cup {[runId |-> t.runId, text |-> t.userRequest,
                                         session |-> t.session]}]
  /\ tasks' = (tasks (-) SetToBag({t}))
                (+) SetToBag({SingleTask("send", t.runId, t.userRequest, t.session)})
  /\ UNCHANGED <<workflows, client, calls, ran, runStore, host>>

\* createSession rejected: startWorkflow rejects
singleSessionFailed(t) ==
  /\ t.kind = "createSession"
  /\ op' = [name |-> "sessionFailed", runId |-> t.runId]
  /\ sent' = <<>>
  /\ tasks' = tasks (-) SetToBag({t})
  /\ UNCHANGED <<workflows, client, calls, ran, runStore, single, host>>

\* the write_draft tool, called by the agent while a message is processed
singleWriteDraft(t) ==
  /\ t.kind = "send"
  /\ op' = [name |-> "writeDraft", runId |-> t.runId]
  /\ sent' = <<[chan |-> "panel:update", type |-> "draft", runId |-> t.runId,
                phase |-> "none", pendingInput |-> NoInput]>>
  /\ single' = [single EXCEPT !.runStates = MapSet(@, t.runId, "draft-text")]
  /\ runStore' = [runStore EXCEPT ![t.runId].draft = "draft-text"]
  /\ UNCHANGED <<workflows, client, tasks, calls, ran, host>>

\* sendAndWait resolved, or threw or timed out: an apology is sent
singleMessageDone(t, ok) ==
  /\ t.kind = "send"
  /\ op' = [name |-> IF ok THEN "messageDone" ELSE "messageThrew", runId |-> t.runId]
  /\ sent' = IF ok THEN <<>>
             ELSE <<[chan |-> "agent:event", type |-> "message", runId |-> t.runId,
                     phase |-> "none", pendingInput |-> NoInput]>>
  /\ tasks' = tasks (-) SetToBag({t})
  /\ UNCHANGED <<workflows, client, calls, ran, runStore, single, host>>

\* a handleUserResponse that passes the response on to the run's session
singleHandleUserResponse_Forwards(runId, response) ==
  /\ op' = [name |-> "handleUserResponse", runId |-> runId]
  /\ sent' = <<>>
  /\ tasks' = IF Has(single.sessions, runId)
              THEN tasks (+) SetToBag({SingleTask("send", runId, response.type,
                                                  single.sessions[runId])})
              ELSE tasks
  /\ UNCHANGED <<workflows, client, calls, ran, runStore, single, host>>

\* handleUserResponse: an empty body
singleHandleUserResponse(runId, response) ==
  /\ op' = [name |-> "handleUserResponse", runId |-> runId]
  /\ sent' = <<>>
  /\ UNCHANGED <<workflows, client, tasks, calls, ran, runStore, single, host>>

\* getState: a state is built whether or not the run is known
singleGetState(runStates, runId) ==
  [found |-> TRUE,
   state |-> [createInitialState(runId, Unset) EXCEPT
                !.phase = "complete",
                !.draft = IF Has(runStates, runId) THEN runStates[runId] ELSE Unset]]

singleIsWorkflowComplete(runId) == FALSE

NextSingle ==
  \/ \E r \in Runs : singleStartWorkflow("startWorkflow", r, Request(calls + 1))
  \/ \E r \in Runs : singleStartWorkflow("handleFollowUp", r, Request(calls + 1))
  \/ \E r \in Runs, resp \in Responses : singleHandleUserResponse(r, resp)
  \/ \E t \in Pending("start") : singleClientStarted(t)
  \/ \E t \in Pending("createSession") : singleSessionCreated(t)
  \/ \E t \in Pending("createSession") : singleSessionFailed(t)
  \/ \E t \in Pending("send") : singleWriteDraft(t)
  \/ \E t \in Pending("send") : \E ok \in BOOLEAN : singleMessageDone(t, ok)

SpecSingle == Init /\ [][NextSingle]_vars

\* C23: at most one session is created for a run, and every message of the
\* run is forwarded to the same session.
C23_OneSessionPerRun ==
  \A r \in Runs :
    /\ single.created[r] <= 1
    /\ \A f, g \in single.forwarded :
         (f.runId = r /\ g.runId = r) => f.session = g.session

\* nothing the step sends is a pending-input checkpoint
NoCheckpointSent ==
  \A i \in 1..Len(sent') :
    sent'[i].chan # "workflow:pending-input" /\ sent'[i].pendingInput = NoInput

\* C24: the Single-Agent Orchestrator never raises or consumes checkpoints:
\* handleUserResponse changes no state and sends nothing, whatever the run and
\* the response, no step sends a pending input, and isWorkflowComplete is
\* false for every run in every state.
C24_NoCheckpoints ==
  /\ [][/\ op'.name = "handleUserResponse"
             => UNCHANGED <<single, tasks, client, workflows, runStore>> /\ sent' = <<>>
        /\ NoCheckpointSent]_vars
  /\ [](\A r \in Runs \cup {"unknown"} : ~singleIsWorkflowComplete(r))

\* a response arrives while the run's session is processing a message
C24_Witness ==
  \E r \in Runs :
    /\ op = [name |-> "handleUserResponse", runId |-> r]
    /\ Has(single.sessions, r)
    /\ Pending("send") # {}
    /\ sent = <<>>

\* pipeline/orchestrator.ts getState and isWorkflowComplete: Map.get, which
\* gives undefined for a run the map does not hold
NotFound == [found |-> FALSE, state |-> NoState]
getState(wfs, runId) ==
  IF Has(wfs, runId) THEN [found |-> TRUE, state |-> wfs[runId]] ELSE NotFound
\* an isWorkflowComplete that looks for a final draft instead of the phase
isWorkflowComplete_ByFinalDraft(wfs, runId) ==
  Has(wfs, runId) /\ wfs[runId].finalDraft # Unset

isWorkflowComplete(wfs, runId) ==
  Has(wfs, runId) /\ wfs[runId].phase = "complete"

\* the Single-Agent Orchestrator was given a message for the run
MessageGiven(runId) ==
  \/ runId \in Runs /\ single.created[runId] > 0
  \/ \E t \in BagToSet(tasks) : t.runId = runId
  \/ \E f \in single.forwarded : f.runId = runId

\* C25: for either strategy, getState gives the run's current snapshot when
\* the orchestrator holds the run, and not found for a run it was never given
\* a message for.
C25_GetStateKnownRunsOnly ==
  \A r \in Runs \cup {"unknown"} :
    /\ getState(workflows, r) =
         (IF Held(r) THEN [found |-> TRUE, state |-> workflows[r]] ELSE NotFound)
    /\ ~MessageGiven(r) => ~singleGetState(single.runStates, r).found

\* C26: isWorkflowComplete of the Pipeline Orchestrator is true exactly when
\* the run's phase is complete: false for a run it does not hold, for a run in
\* a handler phase or a waiting phase, for a run in error, and for a completed
\* run that a follow-up has brought back to planner.
C26_CompleteIffPhaseComplete ==
  \A r \in Runs \cup {"unknown"} :
    /\ ~Held(r) => ~isWorkflowComplete(workflows, r)
    /\ Held(r) =>
         /\ workflows[r].phase \in HandlerPhases \cup WaitingPhases \cup {"error", "idle"}
              => ~isWorkflowComplete(workflows, r)
         /\ workflows[r].phase = "complete" => isWorkflowComplete(workflows, r)

\* a follow-up has brought a completed run back to planner
C26_Witness ==
  \E r \in DOMAIN workflows :
    /\ op.name \in {"startWorkflow", "handleFollowUp"} /\ op.runId = r
    /\ workflows[r].phase = "planner"
    /\ workflows[r].finalDraft # Unset
    /\ ~isWorkflowComplete(workflows, r)

(***************************************************************************)
(* orchestration/index.ts and ipc/handlers.ts: the factory, and the main   *)
(* process that owns the orchestrator.  An orchestrator is seen here by    *)
(* its lifecycle only: initialize() and destroy() are the same in both     *)
(* classes as far as the client goes.                                      *)
(***************************************************************************)
Modes == {"pipeline", "single-agent", "supervisor", "other"}

\* a constructed orchestrator: no client; clients counts the clients it has
\* created and started, destroys the destroy() calls made on it, and
\* usedAfterDestroy records a startWorkflow made after a destroy()
NewOrchestrator(kind) ==
  [kind |-> kind, client |-> "null", clients |-> 0, destroys |-> 0,
   usedAfterDestroy |-> FALSE]

setOrchestrationMode(h, mode) == [h EXCEPT !.mode = mode, !.modeSet = TRUE]
getOrchestrationMode(h) == h.mode

\* a factory without the fallback for modes it does not implement
KindOf_NoFallback(mode) == mode

\* the switch of createOrchestrator
KindOf(mode) ==
  CASE mode = "pipeline" -> "pipeline"
    [] mode = "single-agent" -> "single-agent"
    [] mode = "supervisor" -> "pipeline"
    [] OTHER -> "pipeline"

createOrchestrator(h) ==
  [h EXCEPT !.orchs = Append(@, NewOrchestrator(KindOf(h.mode)))]

\* a promise the main process awaits: client.start() or client.stop() of
\* orchestrator "orch", awaited by the call numbered id; "then" names the
\* handler that goes on after it
HostTask(kind, orch, id, then, mode) ==
  [kind |-> kind, orch |-> orch, id |-> id, then |-> then, mode |-> mode]

\* an initialize() without the test for an existing client
orchInitialize_NoGuard(h, i, id, then, mode) ==
  [h EXCEPT !.orchs[i].client = "client",
            !.orchs[i].clients = @ + 1,
            !.pending = @ \cup {HostTask("start", i, id, then, mode)}]

\* initialize() of orchestrator i, to its await
orchInitialize(h, i, id, then, mode) ==
  IF h.orchs[i].client # "null" THEN h
  ELSE [h EXCEPT !.orchs[i].client = "client",
                 !.orchs[i].clients = @ + 1,
                 !.pending = @ \cup {HostTask("start", i, id, then, mode)}]

\* destroy() of orchestrator i, to its await
orchDestroy(h, i, id, then, mode) ==
  IF h.orchs[i].client # "null"
  THEN [h EXCEPT !.orchs[i].destroys = @ + 1,
                 !.pending = @ \cup {HostTask("stop", i, id, then, mode)}]
  ELSE [h EXCEPT !.orchs[i].destroys = @ + 1]

\* startWorkflow of orchestrator i, to its first await
orchStartWorkflow(h, i, id) ==
  orchInitialize([h EXCEPT !.orchs[i].usedAfterDestroy = @ \/ h.orchs[i].destroys > 0],
                 i, id, "none", "none")

\* the ORCHESTRATION_SET_MODE handler from the return of destroy() on
SwitchAfterDestroy(h, id, mode) ==
  LET h1 == createOrchestrator(setOrchestrationMode(h, mode))
      n == Len(h1.orchs)
  IN orchInitialize([h1 EXCEPT !.current = n], n, id, "switch", mode)

\* a step of the main process
HostStep(name, h) ==
  /\ op' = [name |-> name, runId |-> "none"]
  /\ host' = h
  /\ UNCHANGED <<workflows, client, tasks, sent, ran, runStore, single>>

\* setupIpcHandlers: the saved mode is set, the orchestrator is created and
\* its initialize() is called without being awaited
SetupIpcHandlers ==
  /\ host.current = 0
  /\ LET h1 == IF host.saved # "none" THEN setOrchestrationMode(host, host.saved)
               ELSE host
         h2 == createOrchestrator(h1)
         n == Len(h2.orchs)
     IN HostStep("setupIpcHandlers",
                 orchInitialize([h2 EXCEPT !.current = n], n, 0, "none", "none"))
  /\ calls' = calls

\* the ORCHESTRATION_SET_MODE handler to its first await
SetMode(mode) ==
  /\ host.current # 0
  /\ calls < MaxCalls
  /\ calls' = calls + 1
  /\ LET h1 == orchDestroy(host, host.current, calls + 1, "switch", mode)
     IN HostStep("setMode",
                 IF host.orchs[host.current].client # "null" THEN h1
                 ELSE SwitchAfterDestroy(h1, calls + 1, mode))

\* the USER_MESSAGE handler: startWorkflow of the current orchestrator
UserMessage ==
  /\ host.current # 0
  /\ calls < MaxCalls
  /\ calls' = calls + 1
  /\ HostStep("userMessage", orchStartWorkflow(host, host.current, calls + 1))

\* client.stop() resolved: destroy() sets the client to null and returns, and
\* the handler that awaited it goes on
HostClientStopped(p) ==
  /\ p.kind = "stop"
  /\ LET h1 == [host EXCEPT !.orchs[p.orch].client = "null", !.pending = @ \ {p}]
     IN HostStep("clientStopped",
                 IF p.then = "switch" THEN SwitchAfterDestroy(h1, p.id, p.mode) ELSE h1)
  /\ calls' = calls

\* client.start() resolved: initialize() returns; the mode switch saves its
\* mode to the settings file
HostClientStarted(p) ==
  /\ p.kind = "start"
  /\ LET h1 == [host EXCEPT !.pending = @ \ {p}]
     IN HostStep("clientStarted",
                 IF p.then = "switch" THEN [h1 EXCEPT !.saved = p.mode] ELSE h1)
  /\ calls' = calls

\* the main process starts with or without a saved mode
InitHost ==
  /\ workflows = EmptyMap
  /\ client = "null"
  /\ tasks = EmptyBag
  /\ sent = <<>>
  /\ op = [name |-> "constructor", runId |-> "none"]
  /\ calls = 0
  /\ ran = [r \in Runs |-> <<>>]
  /\ runStore = [r \in Runs |-> NewRun]
  /\ single = NoSingle
  /\ \E m \in Modes \cup {"none"} : host = [NoHost EXCEPT !.saved = m]

NextHost ==
  \/ SetupIpcHandlers
  \/ \E m \in Modes : SetMode(m)
  \/ UserMessage
  \/ \E p \in host.pending : HostClientStopped(p)
  \/ \E p \in host.pending : HostClientStarted(p)

SpecHost == InitHost /\ [][NextHost]_vars

\* the main process is at rest: no handler of it awaits anything
HostAtRest == host.current # 0 /\ host.pending = {}

\* C29: after any sequence of mode switches, overlapping or not, every
\* orchestrator but the current one has been destroyed, holds no client and
\* was not used after its destroy(), and the current one is initialized.
C29_OnlyCurrentOrchestratorLives ==
  HostAtRest
    => /\ \A i \in 1..Len(host.orchs) :
            i # host.current
              => /\ host.orchs[i].destroys > 0
                 /\ host.orchs[i].client = "null"
                 /\ ~host.orchs[i].usedAfterDestroy
       /\ host.orchs[host.current].client = "client"
       /\ host.orchs[host.current].destroys = 0

\* the kind of orchestrator each mode stands for
ExpectedKind(mode) == IF mode = "single-agent" THEN "single-agent" ELSE "pipeline"

\* C28: createOrchestrator returns a newly constructed orchestrator chosen by
\* the current mode (pipeline for supervisor and for unknown modes), which it
\* does not initialize, and leaves every orchestrator created before as it
\* is; the mode is pipeline until setOrchestrationMode is called.
C28_FactorySelectsByMode ==
  /\ ~host.modeSet => getOrchestrationMode(host) = "pipeline"
  /\ \A m \in Modes :
       LET h == setOrchestrationMode(host, m)
           c == createOrchestrator(h)
           n == Len(host.orchs)
       IN /\ getOrchestrationMode(h) = m
          /\ Len(c.orchs) = n + 1
          /\ c.orchs[n + 1] = NewOrchestrator(ExpectedKind(m))
          /\ c.orchs[n + 1].client = "null"
          /\ \A i \in 1..n : c.orchs[i] = host.orchs[i]
          /\ c.current = host.current /\ c.pending = host.pending /\ c.mode = m
  /\ \A i \in 1..Len(host.orchs) : host.orchs[i].kind \in {"pipeline", "single-agent"}

\* a single-agent orchestrator was replaced by the pipeline one that the
\* supervisor mode falls back to
C28_Witness ==
  /\ Len(host.orchs) = 2
  /\ host.orchs[1].kind = "single-agent"
  /\ host.orchs[2].kind = "pipeline"
  /\ host.mode = "supervisor"
  /\ host.current = 2

(***************************************************************************)
(* One orchestrator and the calls of its lifecycle.                        *)
(***************************************************************************)
\* number of lifecycle calls made on the orchestrator in one behaviour
MaxLifecycleCalls == 4

InitOrchestrator ==
  /\ workflows = EmptyMap
  /\ client = "null"
  /\ tasks = EmptyBag
  /\ sent = <<>>
  /\ op = [name |-> "constructor", runId |-> "none"]
  /\ calls = 0
  /\ ran = [r \in Runs |-> <<>>]
  /\ runStore = [r \in Runs |-> NewRun]
  /\ single = NoSingle
  /\ \E m \in Modes :
       host = [createOrchestrator([NoHost EXCEPT !.mode = m]) EXCEPT !.current = 1]

LifecycleCall(name, h) ==
  /\ calls < MaxLifecycleCalls
  /\ calls' = calls + 1
  /\ HostStep(name, h)

InitializeCall == LifecycleCall("initialize", orchInitialize(host, 1, calls + 1, "none", "none"))
StartWorkflowCall == LifecycleCall("startWorkflow", orchStartWorkflow(host, 1, calls + 1))
DestroyCall == LifecycleCall("destroy", orchDestroy(host, 1, calls + 1, "none", "none"))

NextOrchestrator ==
  \/ InitializeCall
  \/ StartWorkflowCall
  \/ DestroyCall
  \/ \E p \in host.pending : HostClientStopped(p)
  \/ \E p \in host.pending : HostClientStarted(p)

SpecOrchestrator == InitOrchestrator /\ [][NextOrchestrator]_vars

\* C27: initialize() is idempotent: until destroy() is called, an orchestrator
\* creates and starts at most one client however many initialize() calls are
\* made and however they overlap, and a call after the first changes nothing.
C27_InitializeIdempotent ==
  /\ [][\A i \in 1..Len(host.orchs) :
          (/\ op'.name = "initialize"
           /\ host.orchs[i].clients >= 1 /\ host.orchs[i].destroys = 0)
            => host' = host]_vars
  /\ [](\A i \in 1..Len(host.orchs) :
          host.orchs[i].destroys = 0 => host.orchs[i].clients <= 1)

\* a second initialize() made while the first still awaits the client's start
C27_Witness ==
  /\ op.name = "initialize"
  /\ calls >= 2
  /\ host.orchs[1].clients = 1
  /\ host.orchs[1].destroys = 0
  /\ \E p \in host.pending : p.kind = "start" /\ p.id = 1

\* the stored projection shows every output the state holds
Mirrors(run, state) ==
  /\ state.research # Unset => run.research = state.research
  /\ state.positioning # Unset => run.positioning = state.positioning
  /\ state.finalDraft # Unset => run.draft = state.finalDraft
  /\ (state.finalDraft = Unset /\ state.draft # Unset) => run.draft = state.draft
  /\ state.imageUrl # Unset => run.image = [url |-> state.imageUrl, status |-> "ready"]

\* C30: the Pipeline Orchestrator writes a run's projection to the Run Store
\* only in the step that takes a handler's return for the run, while no other
\* handler of the run is executing, and after every successful return the
\* stored projection shows the outputs of the returned state.
C30_StoreWrittenBetweenHandlers ==
  [][\A r \in Runs :
       /\ runStore'[r] # runStore[r]
            => /\ op' = [name |-> "phaseReturned", runId |-> r]
               /\ InFlight(tasks, r) = 1
       /\ (op' = [name |-> "phaseReturned", runId |-> r] /\ Succeeded(workflows'[r]))
            => Mirrors(runStore'[r], workflows'[r])]_vars

(***************************************************************************)
(* Two runs on one Pipeline Orchestrator: the first run has been started   *)
(* and has come to its critic, which is being awaited when the behaviour   *)
(* begins.                                                                 *)
(***************************************************************************)
TwoRuns == {"r1", "r2"}

InitTwoRuns ==
  LET s0 == FreshState("r1", Request(1))
      s1 == runPlannerPhase(s0, [throws |-> FALSE, questions |-> 0, plan |-> FullPlan]).state
      s2 == runResearchPhase(s1, [throws |-> FALSE, research |-> "facts"]).state
      s3 == runPositioningPhase(s2, [throws |-> FALSE,
                                     positioning |-> "agent-positioning"]).state
      s == runDraftPhase(s3, [throws |-> FALSE, draft |-> "draft-text"]).state
  IN
  /\ workflows = MapSet(EmptyMap, "r1", s)
  /\ client = "client"
  /\ tasks = SetToBag({HandlerTask(s)})
  /\ sent = emitEvent("phase_complete", s) \o emitEvent("phase_start", s)
  /\ op = [name |-> "phaseReturned", runId |-> "r1"]
  /\ calls = 1
  /\ ran = [r \in Runs |-> <<>>]
  /\ runStore = [r \in Runs |-> NewRun]
  /\ single = NoSingle
  /\ host = NoHost

NextTwoRuns ==
  \/ (\E r \in TwoRuns : StartWorkflow(r, Request(calls + 1))) /\ NoHistory
  \/ (\E r \in TwoRuns : HandleFollowUp(r, Request(calls + 1))) /\ NoHistory
  \/ (\E r \in TwoRuns, resp \in Responses : HandleUserResponse(r, resp)) /\ NoHistory
  \/ (\E t \in Pending("handler") :
        \E out \in HandlerOut(t.state.phase) : PhaseReturned(t, out)) /\ NoHistory
  \/ (\E t \in Pending("handler") :
        \E out \in HandlerOut(t.state.phase) : PhaseThrew(t, out)) /\ NoHistory

SpecTwoRuns == InitTwoRuns /\ [][NextTwoRuns]_vars

\* the handler calls in flight for a run
TasksOf(bag, runId) == {t \in BagToSet(bag) : t.runId = runId}

\* C31: a step made for one run (a call, or a handler's return or throw)
\* leaves every other run as it is: the state held for it, its pending input
\* and its handler calls are unchanged, and nothing is sent for it.
C31_RunsIndependent ==
  [][\A a, b \in TwoRuns :
       (op'.runId = a /\ b # a)
         => /\ Has(workflows', b) = Has(workflows, b)
            /\ Has(workflows, b) => workflows'[b] = workflows[b]
            /\ TasksOf(tasks', b) = TasksOf(tasks, b)
            /\ \A t \in TasksOf(tasks, b) : CopiesIn(t, tasks') = CopiesIn(t, tasks)
            /\ \A i \in 1..Len(sent') : sent'[i].runId # b]_vars

\* a handler of the first run returns while the second run waits for answers
C31_Witness ==
  /\ op = [name |-> "phaseReturned", runId |-> "r1"]
  /\ Has(workflows, "r2")
  /\ workflows["r2"].phase = "planner_waiting"
  /\ workflows["r1"].phase = "image"
  /\ sent # <<>>

\* every plan submit_plan can leave: research tasks or none, any skip flags,
\* with or without instructions for the draft
AllPlans ==
  {[submitted |-> TRUE, researchTasks |-> n, skipResearch |-> f[1],
    skipPositioning |-> f[2], skipCritic |-> f[3], skipImage |-> f[4],
    draftInstructions |-> d] :
   n \in {0, 1}, f \in [1..4 -> BOOLEAN], d \in {Unset, "instructions"}}

\* the phase the spec routes a plan to
RoutedPhase(p) ==
  IF ~p.skipResearch /\ p.researchTasks > 0 THEN "research"
  ELSE IF p.skipPositioning THEN "draft"
  ELSE "positioning"

\* C32: when the planner produces a plan, the next phase is research unless
\* skipResearch is set or the plan has no research tasks, and then draft if
\* skipPositioning is set and positioning otherwise; the skip flags and
\* draftInstructions of the state are those of this plan, whatever an earlier
\* plan has left in the state.
C32_PlannerRouting ==
  \A t \in Pending("handler") :
    t.state.phase = "planner"
      => \A p \in AllPlans :
           LET res == runPlannerPhase(t.state,
                                      [throws |-> FALSE, questions |-> 0, plan |-> p])
           IN /\ res.kind = "return"
              /\ res.state.phase = RoutedPhase(p)
              /\ res.state.plan.set
              /\ res.state.skipResearch = p.skipResearch
              /\ res.state.skipPositioning = p.skipPositioning
              /\ res.state.skipCritic = p.skipCritic
              /\ res.state.skipImage = p.skipImage
              /\ res.state.draftInstructions = p.draftInstructions

\* a follow-up's plan asks for research after the first plan had skipped it
C32_Witness ==
  \E r \in DOMAIN workflows :
    /\ op = [name |-> "phaseReturned", runId |-> r]
    /\ workflows[r].phase = "research"
    /\ Last(workflows[r].messages).agentId = "planner"
    /\ workflows[r].finalDraft # Unset
    /\ workflows[r].research = Unset
    /\ ~workflows[r].skipResearch /\ ~workflows[r].skipCritic

\* C33: whenever the draft phase's agent session completes without throwing,
\* the next phase is critic.
C33_DraftAlwaysToCritic ==
  [][\A r \in Runs : \A t \in Pending("handler") :
       (/\ op' = [name |-> "phaseReturned", runId |-> r]
        /\ t.runId = r /\ Settled(t) /\ t.state.phase = "draft")
         => workflows'[r].phase = "critic"]_vars

\* C34: whenever the research phase's agent session completes, the run moves
\* to positioning with no pending input and with research set to the saved
\* findings; research raises no checkpoint, and no run is ever in phase
\* research_waiting, critic_waiting or idle.
C34_ResearchProceedsToPositioning ==
  /\ [](\A r \in DOMAIN workflows :
          workflows[r].phase \notin {"research_waiting", "critic_waiting", "idle"})
  /\ [][\A r \in Runs : \A t \in Pending("handler") :
          (/\ op' = [name |-> "phaseReturned", runId |-> r]
           /\ t.runId = r /\ Settled(t) /\ t.state.phase = "research")
            => /\ workflows'[r].phase = "positioning"
               /\ workflows'[r].pendingInput = NoInput
               /\ workflows'[r].research \in
                    {o.research : o \in {x \in ResearchOut : ~x.throws}}
               /\ \A i \in 1..Len(sent') : sent'[i].type # "pending_input"]_vars

\* research has returned its findings and the run is at positioning
C34_Witness ==
  \E r \in DOMAIN workflows :
    /\ op = [name |-> "phaseReturned", runId |-> r]
    /\ workflows[r].phase = "positioning"
    /\ workflows[r].research = "facts"
    /\ workflows[r].pendingInput = NoInput
    /\ Last(workflows[r].messages).agentId = "research"

\* C35: when skipCritic is set, the critic phase invokes no agent session
\* (its result does not depend on what a session would do), sets finalDraft to
\* the current draft, and moves to complete if skipImage is set and to image
\* otherwise.
C35_CriticSkip ==
  \A t \in Pending("handler") :
    (t.state.phase = "critic" /\ t.state.skipCritic)
      => \A out \in CriticOut :
           LET res == runCriticPhase(t.state, out) IN
           /\ res.kind = "return"
           /\ res.state.finalDraft = t.state.draft
           /\ res.state.phase = (IF t.state.skipImage THEN "complete" ELSE "image")
           /\ res.state.draft = t.state.draft
           /\ res.state.pendingInput = NoInput

\* a skipped critic has made the draft final and handed over to image
C35_Witness ==
  \E r \in DOMAIN workflows :
    /\ op = [name |-> "phaseReturned", runId |-> r]
    /\ workflows[r].skipCritic /\ ~workflows[r].skipImage
    /\ workflows[r].phase = "image"
    /\ Last(workflows[r].messages).agentId = "critic"
    /\ workflows[r].draft = "draft-text"
    /\ workflows[r].finalDraft = "draft-text"

\* C36: when skipPositioning is set and a prior positioning exists, the
\* positioning phase invokes no agent session, leaves positioning unchanged and
\* moves to draft; otherwise, whenever the session completes, positioning is set
\* (to the agent's positioning, or to a default derived from the plan) and the
\* next phase is draft.
C36_PositioningSkipOrSet ==
  \A t \in Pending("handler") :
    t.state.phase = "positioning"
      => \A out \in PhaseOut("positioning") :
           LET res == runPositioningPhase(t.state, out) IN
           IF t.state.skipPositioning /\ t.state.positioning # Unset
           THEN /\ res.kind = "return"
                /\ res.state.positioning = t.state.positioning
                /\ res.state.phase = "draft"
           ELSE ~out.throws
                  => /\ res.kind = "return"
                     /\ res.state.phase = "draft"
                     /\ res.state.positioning =
                          (IF out.positioning # Unset THEN out.positioning
                           ELSE DefaultPositioning)

\* skipPositioning was set but no positioning existed: the agent was asked and
\* its positioning is in the state
C36_Witness ==
  \E r \in DOMAIN workflows :
    /\ op = [name |-> "phaseReturned", runId |-> r]
    /\ workflows[r].skipPositioning
    /\ workflows[r].phase = "draft"
    /\ Last(workflows[r].messages).agentId = "positioning"
    /\ workflows[r].positioning = "agent-positioning"

\* the phase a checkpoint of the given type suspends
ResumedPhase(type) ==
  CASE type = "questions" -> "planner"
    [] type = "findings" -> "research"
    [] type = "improvements" -> "critic"
    [] OTHER -> "none"

\* C37: handleUserResponse resumes only the phase whose checkpoint is pending:
\* a response whose type differs from the type of the pending input does not
\* move the run into another phase (research or critic while planner questions
\* are pending), and no research, positioning, draft or critic handler is
\* called on a state without a plan.
C37_ResponseResumesPendingPhase ==
  [][/\ \A r \in Runs :
          (/\ op' = [name |-> "handleUserResponse", runId |-> r]
           /\ Has(workflows, r) /\ workflows[r].pendingInput # NoInput)
            => \/ workflows'[r] = workflows[r]
               \/ workflows'[r].phase = ResumedPhase(workflows[r].pendingInput.type)
     /\ \A t \in BagToSet(tasks') :
          (t.kind = "handler" /\ CopiesIn(t, tasks') > CopiesIn(t, tasks)
             /\ t.state.phase \in {"research", "positioning", "draft", "critic"})
            => t.state.plan.set]_vars

(***************************************************************************)
(* A follow-up to a run whose first request went through a clarification  *)
(* round.                                                                  *)
(***************************************************************************)
\* the states a first request leaves at complete when the planner asked
\* questions and the user answered them
ClarifiedRuns ==
  {LET s0 == FreshState(r, OriginalRequest)
       q == runPlannerPhase(s0, [throws |-> FALSE, questions |-> 2, plan |-> NoAgenticPlan]).state
       a == UserResponseState(q, [type |-> "questions", answers |-> "some",
                                  selectedIds |-> "unset"])
       s1 == runPlannerPhase(a, [throws |-> FALSE, questions |-> 0, plan |-> FullPlan]).state
       s2 == runResearchPhase(s1, [throws |-> FALSE, research |-> "facts"]).state
       s3 == runPositioningPhase(s2, [throws |-> FALSE, positioning |-> "agent-positioning"]).state
       s4 == runDraftPhase(s3, [throws |-> FALSE, draft |-> "draft-text"]).state
       s5 == runCriticPhase(s4, co).state
   IN runImagePhase(s5, io).state :
   r \in Runs,
   co \in {o \in CriticOut : ~o.createThrows},
   io \in ImageOut}

\* the run is at rest at complete; the bound on calls is left to the calls
\* that follow
InitClarified ==
  \E s \in ClarifiedRuns :
    /\ workflows = MapSet(EmptyMap, s.runId, s)
    /\ client = "client"
    /\ tasks = EmptyBag
    /\ sent = emitEvent("phase_start", s) \o emitEvent("workflow_complete", s)
    /\ op = [name |-> "runNextPhase", runId |-> s.runId]
    /\ calls = 1
    /\ ran = [r \in Runs |-> <<>>]
    /\ runStore = [r \in Runs |-> NewRun]
    /\ single = NoSingle
    /\ host = NoHost

SpecClarified == InitClarified /\ [][NextFollowUp]_vars

\* the planner call directly follows a request (startWorkflow or a follow-up),
\* not an answer to its questions
FollowsRequest(state) ==
  state.phase = "planner" /\ Last(state.messages).role = "user"

\* C38: answers from a clarification round affect only the planner run that
\* directly follows them: the planner run of a later request on the same run
\* raises the questions its session asks, whatever plannerAnswers the earlier
\* round has left in the state.
C38_AnswersAffectOneRun ==
  \A t \in Pending("handler") :
    FollowsRequest(t.state)
      => \A out \in PlannerOut :
           (~out.throws /\ out.questions > 0)
             => LET res == runPlannerPhase(t.state, out) IN
                /\ res.kind = "return"
                /\ res.state.phase = "planner_waiting"
                /\ res.state.pendingInput.type = "questions"

\* the accumulated outputs of a workflow state that are set
OutputsSet(state) ==
  {f \in {"research", "positioning", "draft", "finalDraft", "imageUrl"} : state[f] # Unset}
    \cup (IF state.plan.set THEN {"plan"} ELSE {})

\* C39: accumulated outputs are additive: no step clears a plan, research,
\* positioning, draft, finalDraft or imageUrl that was set; a step only sets a
\* field that was unset or replaces its value.
C39_OutputsAdditive ==
  [][\A r \in Runs :
       (Has(workflows, r) /\ Has(workflows', r))
         => OutputsSet(workflows[r]) \subseteq OutputsSet(workflows'[r])]_vars

\* C40: after a phase completion the draft text in the Run Store is the most
\* recently produced draft text of the workflow: the text the draft phase has
\* just written, and after the critic the text the critic has made final;
\* once the draft phase has rewritten the draft on a follow-up, the store does
\* not hold the finalDraft of the previous round.
C40_StoreHoldsLatestDraft ==
  [][\A r \in Runs : \A t \in Pending("handler") :
       (/\ op' = [name |-> "phaseReturned", runId |-> r]
        /\ t.runId = r /\ Settled(t) /\ Succeeded(workflows'[r]))
         => /\ t.state.phase = "draft"
                 => runStore'[r].draft = workflows'[r].draft
            /\ (t.state.phase = "critic" /\ workflows'[r].finalDraft # Unset)
                 => runStore'[r].draft = workflows'[r].finalDraft]_vars

====
